---------------------------- MODULE Spec2Model ----------------------------
(***************************************************************************)
(* A state-machine model of python-robo-advisor: the moving-average        *)
(* crossover signal, the order sizing and order decision of                *)
(* alpaca_methods.py, the tradable-symbol filter and its worker pool, the  *)
(* asset sync and the cleanup of data_update.py, over the storage wrappers *)
(* of supabase_methods.py and the paging of get_all_records_in_table.      *)
(*                                                                         *)
(* Prices, volumes and equity are integers and every mean is kept as an    *)
(* exact fraction (num/den), so comparisons are exact; the binary          *)
(* floating point rounding of the Python code is not modelled.             *)
(***************************************************************************)
EXTENDS Integers, Sequences, FiniteSets

(***************************************************************************)
(* Bounds of the model.                                                    *)
(***************************************************************************)
MaxLen == 4        \* longest close series handed to generate_trading_signal
MaxWindow == 3     \* largest moving-average window
MaxPrice == 4      \* close prices of the signal model are 1..MaxPrice
MaxRisk == 100     \* risk_percent ranges over 0..MaxRisk
MaxStop == 3       \* stop_loss_distance ranges over 0..MaxStop
MaxOrders == 2     \* execute_order is called while orders has fewer rows
MaxBars == 2       \* most bars of a stored price series

Symbols == {"AAA", "BBB"}

\* The missing value (float NaN) of a pandas column.
NaN == -999999999

IsNaN(x) == x = NaN

VARIABLES
    tradable,       \* brokerage: the set of tradable symbols it lists
    position,       \* brokerage: open positions, symbol -> quantity
    equity,         \* brokerage: account equity
    stock_assets,   \* storage: symbols of the stock_assets table
    stock_data,     \* storage: stock_data table, symbol -> stored row
    orders,         \* storage: rows of the orders table, in insertion order
    call            \* the latest invocation: operation, arguments, outcome

vars == <<tradable, position, equity, stock_assets, stock_data, orders, call>>

brokerVars == <<tradable, position, equity>>
dbVars == <<stock_assets, stock_data, orders>>

\* A stock_data row that does not exist.
NoRecord == [kind |-> "absent"]

NoCall == [op |-> "none"]

(***************************************************************************)
(* Moving-average crossover signal (alpaca_methods.py)                     *)
(***************************************************************************)
RECURSIVE SumRange(_, _, _)
SumRange(s, lo, hi) == IF lo > hi THEN 0 ELSE s[hi] + SumRange(s, lo, hi - 1)

\* A window that starts at the first bar instead of ending at bar i.
RollingMeanAtLeading(Close, window, i) ==
    IF i < window \/ \E j \in 1..window : IsNaN(Close[j])
    THEN [nan |-> TRUE, num |-> 0, den |-> 1]
    ELSE [nan |-> FALSE, num |-> SumRange(Close, 1, window), den |-> window]

\* An expanding mean: every bar up to i, once `window` bars are there.
RollingMeanAtExpanding(Close, window, i) ==
    IF i < window \/ \E j \in 1..i : IsNaN(Close[j])
    THEN [nan |-> TRUE, num |-> 0, den |-> 1]
    ELSE [nan |-> FALSE, num |-> SumRange(Close, 1, i), den |-> i]

\* Series.rolling(window).mean() at bar i (1-based): NaN until `window` bars
\* are there or when a bar of the window is NaN, else the mean of bars
\* i-window+1..i.
RollingMeanAt(Close, window, i) ==
    IF i < window \/ \E j \in (i - window + 1)..i : IsNaN(Close[j])
    THEN [nan |-> TRUE, num |-> 0, den |-> 1]
    ELSE [nan |-> FALSE, num |-> SumRange(Close, i - window + 1, i), den |-> window]

\* a > b for two fractions with positive denominators.
GreaterThan(a, b) == a.num * b.den > b.num * a.den

\* Decides with >= : equal averages give BUY.
CrossoverSignalGe(short_last, long_last) ==
    IF short_last.nan \/ long_last.nan THEN "HOLD"
    ELSE IF ~GreaterThan(long_last, short_last) THEN "BUY" ELSE "SELL"

\* Lines 129-134: the decision on the two most recent averages.
CrossoverSignal(short_last, long_last) ==
    IF short_last.nan \/ long_last.nan THEN "HOLD"
    ELSE IF GreaterThan(short_last, long_last) THEN "BUY" ELSE "SELL"

\* generate_trading_signal(df, short_window, long_window) on df['Close'].
\* .iloc[-1] of an empty series raises IndexError.
generate_trading_signal(Close, short_window, long_window) ==
    IF Len(Close) = 0
    THEN [raised |-> "IndexError", ret |-> "none"]
    ELSE [raised |-> "none",
          ret |-> CrossoverSignal(RollingMeanAt(Close, short_window, Len(Close)),
                                  RollingMeanAt(Close, long_window, Len(Close)))]

Prices == 1..MaxPrice
Windows == 1..MaxWindow
CloseSeries == UNION {[1..n -> Prices \cup {NaN}] : n \in 0..MaxLen}

\* Every variable a specification does not use keeps this value.
IdleBroker == tradable = {} /\ position = <<>> /\ equity = 0
IdleDb ==
    /\ stock_assets = {}
    /\ stock_data = [s \in Symbols |-> NoRecord]
    /\ orders = <<>>

\* The signal is a pure function of its arguments: the initial state holds
\* the arguments of a pending call, the action returns from it.
InitSignal ==
    /\ IdleBroker
    /\ IdleDb
    /\ \E Close \in CloseSeries, sw \in Windows, lw \in Windows :
          call = [op |-> "generate_trading_signal", status |-> "pending",
                  Close |-> Close, short_window |-> sw, long_window |-> lw,
                  raised |-> "none", ret |-> "none"]

GenerateTradingSignal ==
    /\ call.op = "generate_trading_signal"
    /\ call.status = "pending"
    /\ LET r == generate_trading_signal(call.Close, call.short_window,
                                        call.long_window)
       IN call' = [call EXCEPT !.status = "returned", !.raised = r.raised,
                               !.ret = r.ret]
    /\ UNCHANGED <<brokerVars, dbVars>>

NextSignal == GenerateTradingSignal

SpecSignal == InitSignal /\ [][NextSignal]_vars


(***************************************************************************)
(* Order-quantity sizing (alpaca_methods.py)                               *)
(***************************************************************************)
\* math.floor of n/d, for d > 0.
FloorDiv(n, d) == n \div d

\* int(n/d) of Python: the quotient cut toward zero, for d > 0.
IntTrunc(n, d) == IF n >= 0 THEN n \div d ELSE -((-n) \div d)

\* get_account_equity(): the account's equity, or None when the brokerage
\* call fails.
get_account_equity(broker_ok) ==
    IF broker_ok THEN [none |-> FALSE, value |-> equity]
    ELSE [none |-> TRUE, value |-> 0]

\* Returns 0 for a stop-loss distance of 0 instead of dividing.
determine_order_quantityGuarded(risk_percent, stop_loss_distance, broker_ok) ==
    LET account_equity == get_account_equity(broker_ok)
    IN IF account_equity.none \/ stop_loss_distance = 0
       THEN [raised |-> "none", ret |-> 0]
       ELSE [raised |-> "none",
             ret |-> IntTrunc(account_equity.value * risk_percent,
                              100 * stop_loss_distance)]

\* determine_order_quantity(risk_percent, stop_loss_distance):
\* int(equity * (risk_percent / 100.0) / stop_loss_distance), 0 when the
\* equity is None; dividing by a stop-loss distance of 0 raises.
determine_order_quantity(risk_percent, stop_loss_distance, broker_ok) ==
    LET account_equity == get_account_equity(broker_ok)
    IN IF account_equity.none THEN [raised |-> "none", ret |-> 0]
       ELSE IF stop_loss_distance = 0
       THEN [raised |-> "ZeroDivisionError", ret |-> 0]
       ELSE [raised |-> "none",
             ret |-> IntTrunc(account_equity.value * risk_percent,
                              100 * stop_loss_distance)]

Equities == {-150, -1, 0, 1, 150, 100000}
RiskPercents == 0..MaxRisk
StopLosses == 0..MaxStop

InitSizing ==
    /\ tradable = {}
    /\ position = <<>>
    /\ equity \in Equities
    /\ IdleDb
    /\ \E rp \in RiskPercents, sl \in StopLosses :
          call = [op |-> "determine_order_quantity", status |-> "pending",
                  risk_percent |-> rp, stop_loss_distance |-> sl,
                  equity_ok |-> TRUE, raised |-> "none", ret |-> 0]

DetermineOrderQuantity(broker_ok) ==
    /\ call.op = "determine_order_quantity"
    /\ call.status = "pending"
    /\ LET r == determine_order_quantity(call.risk_percent,
                                         call.stop_loss_distance, broker_ok)
       IN call' = [call EXCEPT !.status = "returned", !.equity_ok = broker_ok,
                               !.raised = r.raised, !.ret = r.ret]
    /\ UNCHANGED <<brokerVars, dbVars>>

NextSizing == \E broker_ok \in BOOLEAN : DetermineOrderQuantity(broker_ok)

SpecSizing == InitSizing /\ [][NextSizing]_vars

(***************************************************************************)
(* Order decision (alpaca_methods.py) and the orders audit table           *)
(***************************************************************************)
\* get_current_position(symbol): the open position's quantity; 0.0 when the
\* brokerage call raises, which it does both when the symbol has no open
\* position and when the call fails.
get_current_position(symbol, broker_ok) ==
    IF broker_ok /\ symbol \in DOMAIN position THEN position[symbol] ELSE 0

\* Buys only when flat, sells as the code does.
OrderDecisionFlatOnly(signal, current_qty) ==
    IF signal = "BUY" /\ current_qty = 0 THEN "BUY"
    ELSE IF signal = "SELL" /\ current_qty > 0 THEN "SELL"
    ELSE "NONE"

\* The branch execute_order takes (lines 197, 213, 229).
OrderDecision(signal, current_qty) ==
    IF signal = "BUY" /\ current_qty <= 0 THEN "BUY"
    ELSE IF signal = "SELL" /\ current_qty > 0 THEN "SELL"
    ELSE "NONE"

\* Lines 199-207 and 215-223: the market order request is built and logged;
\* APCA_API.submit_order is commented out, so nothing is sent to the
\* brokerage.
SubmittedOrders(market_order_data) == <<>>

\* Writes the row over the rows that are there.
create_record_in_tableReplacing(rows, data, db_ok) ==
    IF db_ok THEN <<data>> ELSE rows

\* create_record_in_table(table, data): the row is appended, or, when the
\* storage call raises, the error is logged and the table is as before.
create_record_in_table(rows, data, db_ok) ==
    IF db_ok THEN Append(rows, data) ELSE rows

Signals == {"BUY", "SELL", "HOLD"}
HeldQuantities == {-5, 0, 10}
Quantities == {1, 500}
Positions == UNION {[D -> HeldQuantities] : D \in SUBSET Symbols}

InitOrder ==
    /\ tradable = {}
    /\ position \in Positions
    /\ equity = 0
    /\ IdleDb
    /\ call = NoCall

\* execute_order(symbol, signal, quantity). The brokerage order itself is
\* commented out (lines 206, 222): only the audit row is written.
ExecuteOrder(symbol, signal, quantity, broker_ok, db_ok) ==
    /\ Len(orders) < MaxOrders
    /\ LET current_qty == get_current_position(symbol, broker_ok)
           side == OrderDecision(signal, current_qty)
       IN /\ orders' =
                IF side = "NONE" THEN orders
                ELSE create_record_in_table(
                         orders,
                         [symbol |-> symbol, order_type |-> side,
                          quantity |-> quantity],
                         db_ok)
          /\ call' = [op |-> "execute_order", status |-> "returned",
                      symbol |-> symbol, signal |-> signal,
                      quantity |-> quantity, broker_ok |-> broker_ok,
                      db_ok |-> db_ok, rows_before |-> Len(orders),
                      submitted |->
                          IF side = "NONE" THEN <<>>
                          ELSE SubmittedOrders([symbol |-> symbol,
                                                qty |-> quantity,
                                                side |-> side])]
    /\ UNCHANGED <<brokerVars, stock_assets, stock_data>>

NextOrder ==
    \E symbol \in Symbols, signal \in Signals, quantity \in Quantities,
       broker_ok \in BOOLEAN, db_ok \in BOOLEAN :
        ExecuteOrder(symbol, signal, quantity, broker_ok, db_ok)

SpecOrder == InitOrder /\ [][NextOrder]_vars

(***************************************************************************)
(* Tradable-symbol filter (alpaca_methods.py, the same in data_update.py)  *)
(*                                                                         *)
(* A stock_data row is one of                                              *)
(*   [kind |-> "absent"]       no row for the symbol                       *)
(*   [kind |-> "nodata"]       a row that has no 'data' field              *)
(*   [kind |-> "undecodable"]  a row whose data lines 63-70 cannot turn    *)
(*                             into a date-indexed frame (they raise)      *)
(*   [kind |-> "frame", ...]   a row whose data decodes to bars; close_col *)
(*                             and volume_col give the spelling of the two *)
(*                             columns ("close", "Close", or "absent"),    *)
(*                             bars the values, NaN where the value is     *)
(*                             null, absent or not numeric.                *)
(***************************************************************************)
VolumeThreshold == 1000000
\* The ratio threshold 0.05 is 1 / RatioDen.
RatioDen == 20

\* get_record_from_table(table, symbol): the row, or {} when there is none
\* or the storage call raises.
get_record_from_table(table, symbol, db_ok) ==
    IF db_ok THEN table[symbol] ELSE NoRecord

\* The bars whose value in the column is not missing (dropna / skipna).
Present(bars, col) == {i \in 1..Len(bars) : ~IsNaN(bars[i][col])}

RECURSIVE SumOver(_, _, _)
SumOver(bars, col, idx) ==
    IF idx = {} THEN 0
    ELSE LET i == CHOOSE j \in idx : TRUE
         IN bars[i][col] + SumOver(bars, col, idx \ {i})

\* Series.dropna().mean(): NaN when no value is left.
ColumnMean(bars, col) ==
    LET idx == Present(bars, col)
    IN IF idx = {} THEN [nan |-> TRUE, num |-> 0, den |-> 1]
       ELSE [nan |-> FALSE, num |-> SumOver(bars, col, idx),
             den |-> Cardinality(idx)]

ColumnMax(bars, col) ==
    LET idx == Present(bars, col)
    IN bars[CHOOSE i \in idx : \A j \in idx : bars[j][col] <= bars[i][col]][col]

ColumnMin(bars, col) ==
    LET idx == Present(bars, col)
    IN bars[CHOOSE i \in idx : \A j \in idx : bars[j][col] >= bars[i][col]][col]

\* The highest close alone.
PriceRangeMaxOnly(bars) ==
    IF Present(bars, "close") = {} THEN NaN
    ELSE ColumnMax(bars, "close")

\* df['close'].max() - df['close'].min(): NaN when every close is missing.
PriceRange(bars) ==
    IF Present(bars, "close") = {} THEN NaN
    ELSE ColumnMax(bars, "close") - ColumnMin(bars, "close")

\* avg_volume > 1_000_000: False when avg_volume is NaN.
VolumeAbove(avg_volume) ==
    ~avg_volume.nan /\ avg_volume.num > VolumeThreshold * avg_volume.den

\* price_range / close_mean > 0.05 on numpy floats. A NaN operand gives NaN
\* and False. With close_mean = 0 the quotient is +inf when price_range > 0
\* (True) and NaN when price_range = 0 (False); numpy warns and does not
\* raise. A negative close_mean gives a quotient <= 0 (False).
RatioAbove(price_range, close_mean) ==
    IF IsNaN(price_range) \/ close_mean.nan THEN FALSE
    ELSE IF close_mean.num = 0 THEN price_range > 0
    ELSE IF close_mean.num < 0 THEN FALSE
    ELSE price_range * close_mean.den * RatioDen > close_mean.num

\* Lines 63-91 (the body of the try) on a row that has a data field:
\* "pass" (line 91), "reject" (line 78, or the condition of line 90 is
\* False), or the exception raised.
FilterBody(record) ==
    IF record.kind = "undecodable" THEN "DecodeError"
    ELSE IF Len(record.bars) = 0
              \/ record.close_col = "absent" \/ record.volume_col = "absent"
    THEN "reject"
    ELSE IF record.close_col # "close" \/ record.volume_col # "volume"
    THEN "KeyError"
    ELSE IF VolumeAbove(ColumnMean(record.bars, "volume"))
              /\ RatioAbove(PriceRange(record.bars),
                            ColumnMean(record.bars, "close"))
    THEN "pass"
    ELSE "reject"

\* fetch_and_process_symbol(symbol): the symbol when it passes, None
\* otherwise; every exception of the body is caught and logged (line 93).
fetch_and_process_symbol(symbol, db_ok) ==
    LET record == get_record_from_table(stock_data, symbol, db_ok)
    IN IF record.kind \in {"absent", "nodata"}
       THEN [raised |-> "none", logged |-> "none", ret |-> "None"]
       ELSE LET outcome == FilterBody(record)
            IN IF outcome = "pass"
               THEN [raised |-> "none", logged |-> "none", ret |-> symbol]
               ELSE IF outcome = "reject"
               THEN [raised |-> "none", logged |-> "none", ret |-> "None"]
               ELSE [raised |-> "none", logged |-> outcome, ret |-> "None"]

ClosePrices == {-1, 0, 1, 39, 41}
Volumes == {VolumeThreshold, VolumeThreshold + 1}
ColumnNames(col) == {col, IF col = "close" THEN "Close" ELSE "Volume", "absent"}
Bars == [close : ClosePrices \cup {NaN}, volume : Volumes \cup {NaN}]
BarSeries == UNION {[1..n -> Bars] : n \in 0..MaxBars}

\* A column that is absent has no values.
Frames ==
    {f \in [kind : {"frame"}, close_col : ColumnNames("close"),
            volume_col : ColumnNames("volume"), bars : BarSeries] :
        /\ f.close_col = "absent" =>
              \A i \in 1..Len(f.bars) : IsNaN(f.bars[i].close)
        /\ f.volume_col = "absent" =>
              \A i \in 1..Len(f.bars) : IsNaN(f.bars[i].volume)}

StoredRows ==
    {NoRecord, [kind |-> "nodata"], [kind |-> "undecodable"]} \cup Frames

InitFilter ==
    /\ IdleBroker
    /\ stock_assets = {}
    /\ orders = <<>>
    /\ \E symbol \in Symbols, row \in StoredRows :
          /\ stock_data = [s \in Symbols |->
                              IF s = symbol THEN row ELSE NoRecord]
          /\ call = [op |-> "fetch_and_process_symbol", status |-> "pending",
                     symbol |-> symbol, db_ok |-> TRUE, raised |-> "none",
                     logged |-> "none", ret |-> "None"]

FetchAndProcessSymbol(db_ok) ==
    /\ call.op = "fetch_and_process_symbol"
    /\ call.status = "pending"
    /\ LET r == fetch_and_process_symbol(call.symbol, db_ok)
       IN call' = [call EXCEPT !.status = "returned", !.db_ok = db_ok,
                               !.raised = r.raised, !.logged = r.logged,
                               !.ret = r.ret]
    /\ UNCHANGED <<brokerVars, dbVars>>

NextFilter == \E db_ok \in BOOLEAN : FetchAndProcessSymbol(db_ok)

SpecFilter == InitFilter /\ [][NextFilter]_vars

(***************************************************************************)
(* Asset sync (data_update.py) over the stock_assets table                 *)
(***************************************************************************)
\* get_all_tradable_assets(): the tradable assets the brokerage lists, or []
\* when the brokerage call raises.
get_all_tradable_assets(broker_ok) == IF broker_ok THEN tradable ELSE {}

\* get_all_symbols_from_db(): the symbols of stock_assets;
\* get_all_records_in_table returns [] when a storage call raises.
get_all_symbols_from_db(db_ok) == IF db_ok THEN stock_assets ELSE {}

\* symbol is the unique key of stock_assets: an insert that repeats a stored
\* symbol is rejected by the storage service as a whole.
UniqueKeyViolation(table, symbols) == table \cap symbols # {}

\* create_records_in_table(table, data): one insert of all rows; when the
\* storage call raises the error is logged and the table is as before.
create_records_in_table(table, symbols, db_ok) ==
    IF db_ok /\ ~UniqueKeyViolation(table, symbols)
    THEN table \cup symbols
    ELSE table

\* Keeps one of the new assets only.
NewAssetsFirstOnly(assets, existing_symbols) ==
    LET new == {a \in assets : a \notin existing_symbols}
    IN IF new = {} THEN {} ELSE {CHOOSE a \in new : TRUE}

\* Lines 23-26: the listed assets whose symbol is not stored yet.
NewAssets(assets, existing_symbols) ==
    {a \in assets : a \notin existing_symbols}

\* What a later call remembers of the call before it.
Summary(c) ==
    IF c.op = "update_assets_in_db"
    THEN [op |-> c.op, universe |-> c.universe,
          ok |-> c.list_ok /\ c.read_ok /\ c.insert_ok]
    ELSE [op |-> c.op, universe |-> {}, ok |-> FALSE]

InitSync ==
    /\ tradable \in SUBSET Symbols
    /\ position = <<>>
    /\ equity = 0
    /\ stock_assets \in SUBSET Symbols
    /\ stock_data = [s \in Symbols |-> NoRecord]
    /\ orders = <<>>
    /\ call = NoCall

\* update_assets_in_db(): returns at line 17 when the listing is empty, else
\* inserts the new assets in one batch (when there are any).
UpdateAssetsInDb(list_ok, read_ok, insert_ok) ==
    /\ LET assets == get_all_tradable_assets(list_ok)
           existing_symbols == get_all_symbols_from_db(read_ok)
           new_assets == NewAssets(assets, existing_symbols)
           after == IF assets = {} \/ new_assets = {} THEN stock_assets
                    ELSE create_records_in_table(stock_assets, new_assets,
                                                 insert_ok)
       IN /\ stock_assets' = after
          /\ call' = [op |-> "update_assets_in_db", status |-> "returned",
                      list_ok |-> list_ok, read_ok |-> read_ok,
                      insert_ok |-> insert_ok, universe |-> tradable,
                      before |-> stock_assets,
                      inserted |-> after \ stock_assets,
                      prev |-> Summary(call)]
    /\ UNCHANGED <<brokerVars, stock_data, orders>>

\* The brokerage's universe of tradable assets changes between two runs.
BrokerageChange(universe) ==
    /\ universe # tradable
    /\ tradable' = universe
    /\ call' = [op |-> "brokerage_change", status |-> "returned"]
    /\ UNCHANGED <<position, equity, dbVars>>

NextSync ==
    \/ \E list_ok \in BOOLEAN, read_ok \in BOOLEAN, insert_ok \in BOOLEAN :
          UpdateAssetsInDb(list_ok, read_ok, insert_ok)
    \/ \E universe \in SUBSET Symbols : BrokerageChange(universe)

SpecSync == InitSync /\ [][NextSync]_vars

(***************************************************************************)
(* Worker pool of filter_best_symbols (alpaca_methods.py)                  *)
(*                                                                         *)
(* executor.map queues one task per input symbol; each of the max_workers  *)
(* threads takes the next queued task, runs fetch_and_process_symbol on it *)
(* and stores the outcome in the future of that task.  list(...) waits for *)
(* the futures in input order.                                             *)
(***************************************************************************)
max_workers == 2
Workers == 1..max_workers

MaxBatch == 3      \* longest symbol list handed to filter_best_symbols

\* The result of a task no worker has finished yet.
PendingResult == "pending"

\* Closes 1 and 41: range 40 over mean 21, mean volume over the threshold.
PassingRow ==
    [kind |-> "frame", close_col |-> "close", volume_col |-> "volume",
     bars |-> <<[close |-> 1, volume |-> VolumeThreshold + 1],
                [close |-> 41, volume |-> VolumeThreshold + 1]>>]

\* Closes 39 and 41: range 2 over mean 40 is 0.05, not above it.
RejectedRow ==
    [kind |-> "frame", close_col |-> "close", volume_col |-> "volume",
     bars |-> <<[close |-> 39, volume |-> VolumeThreshold + 1],
                [close |-> 41, volume |-> VolumeThreshold + 1]>>]

PoolRows == {NoRecord, [kind |-> "undecodable"], PassingRow, RejectedRow}

SymbolLists == UNION {[1..n -> Symbols] : n \in 0..MaxBatch}

\* The symbols in ascending order.
SymbolOrder == <<"AAA", "BBB">>

CountOf(seq, s) == Cardinality({i \in DOMAIN seq : seq[i] = s})

RECURSIVE Repeat(_, _)
Repeat(s, n) == IF n = 0 THEN <<>> ELSE <<s>> \o Repeat(s, n - 1)

RECURSIVE SortedUpTo(_, _)
SortedUpTo(seq, k) ==
    IF k = 0 THEN <<>>
    ELSE SortedUpTo(seq, k - 1)
           \o Repeat(SymbolOrder[k], CountOf(seq, SymbolOrder[k]))

\* sorted(list) of a list of symbols.
sorted(seq) == SortedUpTo(seq, Len(SymbolOrder))

\* Line 110: the results that are not None, in input order.
RECURSIVE NotNone(_)
NotNone(results) ==
    IF results = <<>> THEN <<>>
    ELSE (IF Head(results) = "None" THEN <<>> ELSE <<Head(results)>>)
           \o NotNone(Tail(results))

\* Stores the outcome in the first slot that is still free (the order in
\* which the tasks finish).
StoreResultNextFree(results, idx, value) ==
    LET free == {i \in DOMAIN results : results[i] = PendingResult}
        first == CHOOSE i \in free : \A j \in free : i <= j
    IN [results EXCEPT ![first] = value]

\* The outcome of task idx goes into the future of task idx, which
\* executor.map yields at position idx.
StoreResult(results, idx, value) == [results EXCEPT ![idx] = value]

InitPool ==
    /\ IdleBroker
    /\ stock_assets = {}
    /\ orders = <<>>
    /\ stock_data \in [Symbols -> PoolRows]
    /\ \E symbols \in SymbolLists :
          call = [op |-> "filter_best_symbols", status |-> "pending",
                  symbols |-> symbols, next |-> 1,
                  running |-> [w \in Workers |-> 0],
                  results |-> [i \in 1..Len(symbols) |-> PendingResult],
                  failed |-> {}, finished |-> <<>>,
                  raised |-> "none", ret |-> <<>>]

\* An idle worker thread takes the next queued task.
WorkerTake(w) ==
    /\ call.op = "filter_best_symbols"
    /\ call.status = "pending"
    /\ call.running[w] = 0
    /\ call.next <= Len(call.symbols)
    /\ call' = [call EXCEPT !.running[w] = call.next, !.next = call.next + 1]
    /\ UNCHANGED <<brokerVars, dbVars>>

\* The worker runs fetch_and_process_symbol on its task; an exception that
\* left the function would be kept in the future.
WorkerFinish(w, db_ok) ==
    /\ call.op = "filter_best_symbols"
    /\ call.status = "pending"
    /\ call.running[w] # 0
    /\ LET idx == call.running[w]
           r == fetch_and_process_symbol(call.symbols[idx], db_ok)
           value == IF r.raised # "none" THEN "Exception" ELSE r.ret
       IN call' = [call EXCEPT
                      !.running[w] = 0,
                      !.results = StoreResult(call.results, idx, value),
                      !.failed = IF db_ok THEN call.failed
                                 ELSE call.failed \cup {idx},
                      !.finished = Append(call.finished, idx)]
    /\ UNCHANGED <<brokerVars, dbVars>>

\* Lines 107-113: once every future is done, list() has the results in input
\* order (or re-raises the exception of a task); the symbols that are not
\* None are returned sorted.
FilterBestSymbolsReturn ==
    /\ call.op = "filter_best_symbols"
    /\ call.status = "pending"
    /\ \A i \in DOMAIN call.results : call.results[i] # PendingResult
    /\ call' = IF \E i \in DOMAIN call.results : call.results[i] = "Exception"
               THEN [call EXCEPT !.status = "returned", !.raised = "Exception"]
               ELSE [call EXCEPT !.status = "returned",
                                 !.ret = sorted(NotNone(call.results))]
    /\ UNCHANGED <<brokerVars, dbVars>>

NextPool ==
    \/ \E w \in Workers : WorkerTake(w)
    \/ \E w \in Workers, db_ok \in BOOLEAN : WorkerFinish(w, db_ok)
    \/ FilterBestSymbolsReturn

SpecPool == InitPool /\ [][NextPool]_vars

(***************************************************************************)
(* Paging of get_all_records_in_table (supabase_methods.py)                *)
(*                                                                         *)
(* The rows of the table are numbered 0..rows-1 in the order the storage   *)
(* service lists them; a page is the range [first, last] of row numbers    *)
(* it holds (empty when first > last), and all_records is the sequence of  *)
(* the pages fetched so far.                                               *)
(***************************************************************************)
batch_size == 1000

MaxRows == 2500    \* largest table get_all_records_in_table pages through

TableSizes == 0..MaxRows

\* What an external call (brokerage, market data, storage) raises; "none"
\* when it succeeds.
Failures == {"none", "APIError", "ConnectionError"}

\* An except clause that handles one class of error only.
PropagatedUnlessAPIError(exc) == IF exc = "APIError" THEN "none" ELSE exc

\* `except Exception as e: log.error(...)` followed by the return of the
\* default: what is left of the exception for the caller.
Propagated(exc) == "none"

Min2(a, b) == IF a <= b THEN a ELSE b

\* response.data of .range(first, last): the rows first..last that exist.
RangeRows(rows, first, last) ==
    [first |-> first, last |-> Min2(last, rows - 1)]

\* `not response.data`
EmptyPage(data) == data.first > data.last

\* Moves on by one row less than a page.
NextStartOverlapping(start) == start + batch_size - 1

\* Line 22: start += batch_size
NextStart(start) == start + batch_size

\* Lines 11-13: the locals of get_all_records_in_table before the loop.
PagingCall(rows) ==
    [op |-> "get_all_records_in_table", status |-> "pending",
     rows |-> rows, start |-> 0, all_records |-> <<>>, requests |-> 0,
     failure |-> "none", raised |-> "none", ret |-> <<>>]

InitPaging ==
    /\ IdleBroker
    /\ IdleDb
    /\ \E rows \in TableSizes : call = PagingCall(rows)

\* One iteration of the loop (lines 16-22): the request raises and the
\* function returns [] (lines 25-27), or the page is empty and the function
\* returns all_records (lines 19, 24), or the page is added.
FetchPage(failure) ==
    /\ call.op = "get_all_records_in_table"
    /\ call.status = "pending"
    /\ LET data == RangeRows(call.rows, call.start,
                             call.start + batch_size - 1)
       IN call' =
            IF failure # "none"
            THEN [call EXCEPT !.status = "returned",
                              !.requests = @ + 1,
                              !.failure = failure,
                              !.raised = Propagated(failure),
                              !.ret = <<>>]
            ELSE IF EmptyPage(data)
            THEN [call EXCEPT !.status = "returned",
                              !.requests = @ + 1,
                              !.ret = call.all_records]
            ELSE [call EXCEPT !.all_records = Append(@, data),
                              !.start = NextStart(@),
                              !.requests = @ + 1]
    /\ UNCHANGED <<brokerVars, dbVars>>

NextPaging == \E failure \in Failures : FetchPage(failure)

SpecPaging == InitPaging /\ [][NextPaging]_vars

\* The loop runs in one thread and every request returns or raises, so an
\* iteration that can be taken is taken.
SpecPagingLive == SpecPaging /\ WF_vars(NextPaging)

(***************************************************************************)
(* The wrappers around the external calls, each called once from any       *)
(* state of the brokerage and the storage.                                 *)
(***************************************************************************)
\* pd.DataFrame()
EmptyFrame == [kind |-> "frame", bars |-> <<>>]

\* What yf.download hands back when it does not raise: None, an empty
\* frame, or bars.
Downloads ==
    {[kind |-> "none"], EmptyFrame,
     [kind |-> "frame", bars |-> <<[close |-> 1, volume |-> VolumeThreshold]>>]}

\* fetch_stock_data(symbol, period): the downloaded frame; an empty frame
\* when there is no data or the download raises.
fetch_stock_data(data, ok) ==
    IF ~ok THEN EmptyFrame
    ELSE IF data.kind = "none" THEN EmptyFrame
    ELSE IF Len(data.bars) = 0 THEN EmptyFrame
    ELSE data

\* update_records_in_table(table, data): one upsert of all rows; when the
\* storage call raises the error is logged and the table is as before.
update_records_in_table(table, records, db_ok) ==
    IF db_ok
    THEN [s \in DOMAIN table |->
            IF s \in DOMAIN records THEN records[s] ELSE table[s]]
    ELSE table

\* delete_records_in_table(table, data): one delete of the rows whose symbol
\* is in data; when the storage call raises the error is logged and the
\* table is as before.
delete_records_in_table(table_name, table, symbols, db_ok) ==
    IF ~db_ok THEN table
    ELSE IF table_name = "stock_assets" THEN table \ symbols
    ELSE [s \in DOMAIN table |-> IF s \in symbols THEN NoRecord ELSE table[s]]

\* The call record of a wrapper that has returned (or raised).
WrapperCall(op, failure, raised, ret) ==
    [op |-> op, status |-> "returned", failure |-> failure,
     raised |-> raised, ret |-> ret]

WrapperEquities == {-150, 0, 100000}
WrapperRisks == {0, 1, MaxRisk}
WrapperTableSizes == {0, 1, batch_size, batch_size + 1}
UpsertRecords == UNION {[D -> {PassingRow}] : D \in SUBSET Symbols}

InitWrappers ==
    /\ tradable \in SUBSET Symbols
    /\ position \in Positions
    /\ equity \in WrapperEquities
    /\ stock_assets \in SUBSET Symbols
    /\ stock_data \in [Symbols -> {NoRecord, PassingRow}]
    /\ orders = <<>>
    /\ call = NoCall

GetAllTradableAssets(failure) ==
    /\ call = NoCall
    /\ call' = WrapperCall("get_all_tradable_assets", failure,
                           Propagated(failure),
                           get_all_tradable_assets(failure = "none"))
    /\ UNCHANGED <<brokerVars, dbVars>>

FetchStockData(data, failure) ==
    /\ call = NoCall
    /\ call' = WrapperCall("fetch_stock_data", failure, Propagated(failure),
                           fetch_stock_data(data, failure = "none"))
    /\ UNCHANGED <<brokerVars, dbVars>>

GetCurrentPosition(symbol, failure) ==
    /\ call = NoCall
    /\ call' = WrapperCall("get_current_position", failure,
                           Propagated(failure),
                           get_current_position(symbol, failure = "none"))
    /\ UNCHANGED <<brokerVars, dbVars>>

GetAccountEquity(failure) ==
    /\ call = NoCall
    /\ call' = WrapperCall("get_account_equity", failure, Propagated(failure),
                           get_account_equity(failure = "none"))
    /\ UNCHANGED <<brokerVars, dbVars>>

\* determine_order_quantity has no try of its own: what get_account_equity
\* lets through and what its own division raises reaches the caller.
CallDetermineOrderQuantity(risk_percent, stop_loss_distance, failure) ==
    /\ call = NoCall
    /\ LET r == determine_order_quantity(risk_percent, stop_loss_distance,
                                         failure = "none")
       IN call' = WrapperCall("determine_order_quantity", failure,
                              IF Propagated(failure) # "none"
                              THEN Propagated(failure) ELSE r.raised,
                              r.ret)
    /\ UNCHANGED <<brokerVars, dbVars>>

EnterGetAllRecordsInTable(rows) ==
    /\ call = NoCall
    /\ call' = PagingCall(rows)
    /\ UNCHANGED <<brokerVars, dbVars>>

GetRecordFromTable(symbol, failure) ==
    /\ call = NoCall
    /\ call' = WrapperCall("get_record_from_table", failure,
                           Propagated(failure),
                           get_record_from_table(stock_data, symbol,
                                                 failure = "none"))
    /\ UNCHANGED <<brokerVars, dbVars>>

CreateRecordInTable(data, failure) ==
    /\ call = NoCall
    /\ orders' = create_record_in_table(orders, data, failure = "none")
    /\ call' = WrapperCall("create_record_in_table", failure,
                           Propagated(failure), "None")
    /\ UNCHANGED <<brokerVars, stock_assets, stock_data>>

CreateRecordsInTable(symbols, failure) ==
    /\ call = NoCall
    /\ stock_assets' = create_records_in_table(stock_assets, symbols,
                                               failure = "none")
    /\ call' = WrapperCall("create_records_in_table", failure,
                           Propagated(failure), "None")
    /\ UNCHANGED <<brokerVars, stock_data, orders>>

UpdateRecordsInTable(records, failure) ==
    /\ call = NoCall
    /\ stock_data' = update_records_in_table(stock_data, records,
                                             failure = "none")
    /\ call' = WrapperCall("update_records_in_table", failure,
                           Propagated(failure), "None")
    /\ UNCHANGED <<brokerVars, stock_assets, orders>>

DeleteRecordsInTable(table_name, symbols, failure) ==
    /\ call = NoCall
    /\ stock_assets' =
          IF table_name = "stock_assets"
          THEN delete_records_in_table(table_name, stock_assets, symbols,
                                       failure = "none")
          ELSE stock_assets
    /\ stock_data' =
          IF table_name = "stock_data"
          THEN delete_records_in_table(table_name, stock_data, symbols,
                                       failure = "none")
          ELSE stock_data
    /\ call' = WrapperCall("delete_records_in_table", failure,
                           Propagated(failure), "None")
    /\ UNCHANGED <<brokerVars, orders>>

NextWrappers ==
    \/ \E failure \in Failures : GetAllTradableAssets(failure)
    \/ \E data \in Downloads, failure \in Failures :
          FetchStockData(data, failure)
    \/ \E symbol \in Symbols, failure \in Failures :
          GetCurrentPosition(symbol, failure)
    \/ \E failure \in Failures : GetAccountEquity(failure)
    \/ \E rp \in WrapperRisks, sl \in StopLosses, failure \in Failures :
          CallDetermineOrderQuantity(rp, sl, failure)
    \/ \E rows \in WrapperTableSizes : EnterGetAllRecordsInTable(rows)
    \/ \E failure \in Failures : FetchPage(failure)
    \/ \E symbol \in Symbols, failure \in Failures :
          GetRecordFromTable(symbol, failure)
    \/ \E symbol \in Symbols, side \in {"BUY", "SELL"},
          quantity \in Quantities, failure \in Failures :
          CreateRecordInTable([symbol |-> symbol, order_type |-> side,
                               quantity |-> quantity], failure)
    \/ \E symbols \in SUBSET Symbols \ {{}}, failure \in Failures :
          CreateRecordsInTable(symbols, failure)
    \/ \E records \in UpsertRecords, failure \in Failures :
          UpdateRecordsInTable(records, failure)
    \/ \E table_name \in {"stock_assets", "stock_data"},
          symbols \in SUBSET Symbols, failure \in Failures :
          DeleteRecordsInTable(table_name, symbols, failure)

SpecWrappers == InitWrappers /\ [][NextWrappers]_vars

(***************************************************************************)
(* The mirror of the brokerage universe in storage (data_update.py):       *)
(* update_assets_in_db inserts, cleanup_db deletes.                        *)
(***************************************************************************)
\* Deletes every stored symbol.
DeleteSymbolsAllStored(db_symbols, tradable_symbols) == db_symbols

\* Line 184: the stored symbols the brokerage does not list.
DeleteSymbols(db_symbols, tradable_symbols) == db_symbols \ tradable_symbols

InitMirror ==
    /\ tradable \in SUBSET Symbols
    /\ position = <<>>
    /\ equity = 0
    /\ stock_assets \in SUBSET Symbols
    /\ stock_data \in [Symbols -> {NoRecord, PassingRow}]
    /\ orders = <<>>
    /\ call = NoCall

\* cleanup_db(): the listing and the stored symbols are read through their
\* wrappers (each gives its empty default on failure), and the stored symbols
\* that are not listed are deleted from stock_assets and from stock_data, by
\* one delete each (when there are any).
CleanupDb(list_ok, read_ok, delete_assets_ok, delete_data_ok) ==
    /\ LET tradable_symbols == get_all_tradable_assets(list_ok)
           db_symbols == get_all_symbols_from_db(read_ok)
           delete_symbols == DeleteSymbols(db_symbols, tradable_symbols)
       IN /\ stock_assets' =
                IF delete_symbols = {} THEN stock_assets
                ELSE delete_records_in_table("stock_assets", stock_assets,
                                             delete_symbols, delete_assets_ok)
          /\ stock_data' =
                IF delete_symbols = {} THEN stock_data
                ELSE delete_records_in_table("stock_data", stock_data,
                                             delete_symbols, delete_data_ok)
          /\ call' = [op |-> "cleanup_db", status |-> "returned",
                      list_ok |-> list_ok, read_ok |-> read_ok,
                      delete_assets_ok |-> delete_assets_ok,
                      delete_data_ok |-> delete_data_ok,
                      universe |-> tradable,
                      before |-> stock_assets,
                      data_before |-> stock_data,
                      prev |-> Summary(call)]
    /\ UNCHANGED <<brokerVars, orders>>

NextMirror ==
    \/ \E list_ok \in BOOLEAN, read_ok \in BOOLEAN, insert_ok \in BOOLEAN :
          UpdateAssetsInDb(list_ok, read_ok, insert_ok)
    \/ \E list_ok \in BOOLEAN, read_ok \in BOOLEAN,
          delete_assets_ok \in BOOLEAN, delete_data_ok \in BOOLEAN :
          CleanupDb(list_ok, read_ok, delete_assets_ok, delete_data_ok)
    \/ \E universe \in SUBSET Symbols : BrokerageChange(universe)

SpecMirror == InitMirror /\ [][NextMirror]_vars

(***************************************************************************)
(* Claims about the signal, checked under SpecSignal.                      *)
(***************************************************************************)
Returned(opname) == call.op = opname /\ call.status = "returned"

Max2(a, b) == IF a >= b THEN a ELSE b

\* The average of the last w bars exists: w bars are there, none is missing.
TrailingDefined(C, w) ==
    Len(C) >= w /\ \A j \in (Len(C) - w + 1)..Len(C) : C[j] # NaN

TrailingSum(C, w) == SumRange(C, Len(C) - w + 1, Len(C))

BothDefined(C, sw, lw) == TrailingDefined(C, sw) /\ TrailingDefined(C, lw)

NoMissing(C) == \A i \in 1..Len(C) : C[i] # NaN
StrictlyIncreasing(C) == NoMissing(C) /\ \A i \in 1..(Len(C) - 1) : C[i] < C[i + 1]
StrictlyDecreasing(C) == NoMissing(C) /\ \A i \in 1..(Len(C) - 1) : C[i] > C[i + 1]
NonIncreasing(C) == NoMissing(C) /\ \A i \in 1..(Len(C) - 1) : C[i] >= C[i + 1]

C3_ShortSeriesHold ==
    (Returned("generate_trading_signal") /\ Len(call.Close) < call.long_window)
        => (call.raised = "none" /\ call.ret = "HOLD")

\* C4 as stated: a strictly increasing series (of two bars or more) with both
\* averages defined gives BUY for every pair of windows.
C4_IncreasingBuyAnyWindows ==
    (Returned("generate_trading_signal")
       /\ Len(call.Close) >= 2
       /\ StrictlyIncreasing(call.Close)
       /\ BothDefined(call.Close, call.short_window, call.long_window))
        => call.ret = "BUY"

\* C4 amended: a strictly increasing series with both averages defined gives
\* BUY when short_window < long_window, and SELL otherwise.
C4_IncreasingBuyShortBelowLong ==
    (Returned("generate_trading_signal")
       /\ StrictlyIncreasing(call.Close)
       /\ BothDefined(call.Close, call.short_window, call.long_window))
        => call.ret = (IF call.short_window < call.long_window
                       THEN "BUY" ELSE "SELL")

C4_Witness ==
    /\ Returned("generate_trading_signal")
    /\ StrictlyIncreasing(call.Close)
    /\ Len(call.Close) > call.long_window
    /\ call.short_window < call.long_window
    /\ call.ret = "BUY"

\* C5 as stated: a strictly decreasing series (of two bars or more) with both
\* averages defined gives SELL for every pair of windows.
C5_DecreasingSellAnyWindows ==
    (Returned("generate_trading_signal")
       /\ Len(call.Close) >= 2
       /\ StrictlyDecreasing(call.Close)
       /\ BothDefined(call.Close, call.short_window, call.long_window))
        => call.ret = "SELL"

\* C5 amended: a decreasing (non-increasing) series with both averages defined
\* gives SELL when short_window <= long_window.
C5_DecreasingSellShortAtMostLong ==
    (Returned("generate_trading_signal")
       /\ NonIncreasing(call.Close)
       /\ BothDefined(call.Close, call.short_window, call.long_window)
       /\ call.short_window <= call.long_window)
        => call.ret = "SELL"

C5_Witness ==
    /\ Returned("generate_trading_signal")
    /\ StrictlyDecreasing(call.Close)
    /\ Len(call.Close) > call.long_window
    /\ call.short_window < call.long_window
    /\ call.ret = "SELL"

C13_ZeroStopLossRaises ==
    (Returned("determine_order_quantity")
       /\ call.equity_ok /\ call.stop_loss_distance = 0)
        => call.raised = "ZeroDivisionError"

\* C13 witness: equity 100000, risk 1, stop-loss distance 0 raised.
C13_Witness ==
    /\ Returned("determine_order_quantity")
    /\ call.equity_ok
    /\ equity = 100000 /\ call.risk_percent = 1 /\ call.stop_loss_distance = 0
    /\ call.raised = "ZeroDivisionError"

(***************************************************************************)
(* Claims about the order decision, checked under SpecOrder.               *)
(***************************************************************************)
\* The quantity the brokerage holds for the symbol, 0 without a position.
Held(symbol) == IF symbol \in DOMAIN position THEN position[symbol] ELSE 0

\* The latest execute_order call added exactly one row, of this side, with
\* the call's symbol and quantity.
Recorded(side) ==
    /\ Len(orders) = call.rows_before + 1
    /\ orders[Len(orders)] = [symbol |-> call.symbol, order_type |-> side,
                              quantity |-> call.quantity]

RecordedNothing == Len(orders) = call.rows_before

StoredRow == stock_data[call.symbol]

\* The stored row decodes to at least one bar and has both columns, spelled
\* close and volume.
HasCloseAndVolume ==
    /\ StoredRow.kind = "frame"
    /\ Len(StoredRow.bars) >= 1
    /\ StoredRow.close_col = "close"
    /\ StoredRow.volume_col = "volume"

\* Sum and count of the values of a column that are not missing.
RECURSIVE SumPresent(_, _, _)
SumPresent(bars, col, n) ==
    IF n = 0 THEN 0
    ELSE (IF bars[n][col] = NaN THEN 0 ELSE bars[n][col])
           + SumPresent(bars, col, n - 1)

CountPresent(bars, col) ==
    Cardinality({i \in 1..Len(bars) : bars[i][col] # NaN})

CloseSpread(bars) ==
    LET cs == {bars[i].close : i \in {j \in 1..Len(bars) : bars[j].close # NaN}}
    IN (CHOOSE hi \in cs : \A c \in cs : c <= hi)
         - (CHOOSE lo \in cs : \A c \in cs : c >= lo)

\* The mean volume over the non-missing bars is > 1,000,000.
MeanVolumeOverThreshold(bars) ==
    /\ CountPresent(bars, "volume") > 0
    /\ SumPresent(bars, "volume", Len(bars))
         > VolumeThreshold * CountPresent(bars, "volume")

\* (max close - min close) / mean close is a number and is > 0.05. The
\* spread is >= 0, so a negative mean gives a quotient <= 0; the quotient
\* does not exist when the mean is 0 or every close is missing.
RatioOverThreshold(bars) ==
    /\ CountPresent(bars, "close") > 0
    /\ SumPresent(bars, "close", Len(bars)) > 0
    /\ CloseSpread(bars) * CountPresent(bars, "close") * RatioDen
         > SumPresent(bars, "close", Len(bars))

\* C7: for a stored series that has close and volume fields (and is read),
\* fetch_and_process_symbol returns the symbol iff the mean volume is
\* > 1,000,000 and (max close - min close) / mean close is > 0.05, and None
\* otherwise.
C7_FilterIff ==
    (Returned("fetch_and_process_symbol") /\ call.db_ok /\ HasCloseAndVolume)
        => /\ call.ret \in {call.symbol, "None"}
           /\ call.ret = call.symbol
                <=> (MeanVolumeOverThreshold(StoredRow.bars)
                       /\ RatioOverThreshold(StoredRow.bars))

\* The statement of C7 away from the division by a zero mean close: it holds
\* for every series whose closes do not sum to 0 or are all equal.
C7_FilterIffMeanNonzero ==
    (Returned("fetch_and_process_symbol") /\ call.db_ok /\ HasCloseAndVolume
       /\ (SumPresent(StoredRow.bars, "close", Len(StoredRow.bars)) # 0
             \/ CountPresent(StoredRow.bars, "close") = 0
             \/ CloseSpread(StoredRow.bars) = 0))
        => /\ call.ret \in {call.symbol, "None"}
           /\ call.ret = call.symbol
                <=> (MeanVolumeOverThreshold(StoredRow.bars)
                       /\ RatioOverThreshold(StoredRow.bars))

\* Every bar of the stored series has the same close price.
ConstantClose ==
    /\ StoredRow.kind = "frame"
    /\ Len(StoredRow.bars) >= 1
    /\ \E C \in ClosePrices :
          \A i \in 1..Len(StoredRow.bars) : StoredRow.bars[i].close = C

\* C8: a series whose close is the same on all bars is rejected, whatever
\* the volumes are.
C8_ConstantCloseRejected ==
    (Returned("fetch_and_process_symbol") /\ ConstantClose)
        => call.ret = "None"

\* C8 witness: a constant close with a mean volume over the threshold, read
\* from storage, was rejected.
C8_Witness ==
    /\ Returned("fetch_and_process_symbol")
    /\ call.db_ok
    /\ ConstantClose
    /\ HasCloseAndVolume
    /\ StoredRow.bars[1].close > 0
    /\ MeanVolumeOverThreshold(StoredRow.bars)
    /\ call.ret = "None"

\* C9: fetch_and_process_symbol never raises, and it returns None when the
\* symbol has no stored row, the row has no data field, the data cannot be
\* decoded, the close or volume column is missing, every close or every
\* volume is missing, or the mean close is 0.
C9_FailClosed ==
    Returned("fetch_and_process_symbol") =>
        /\ call.raised = "none"
        /\ (\/ StoredRow.kind \in {"absent", "nodata", "undecodable"}
            \/ /\ StoredRow.kind = "frame"
               /\ \/ StoredRow.close_col = "absent"
                  \/ StoredRow.volume_col = "absent"
                  \/ CountPresent(StoredRow.bars, "close") = 0
                  \/ CountPresent(StoredRow.bars, "volume") = 0
                  \/ SumPresent(StoredRow.bars, "close", Len(StoredRow.bars)) = 0)
           => call.ret = "None"

(***************************************************************************)
(* Claims about the asset sync, checked under SpecSync.                    *)
(***************************************************************************)
\* The latest two calls are update_assets_in_db, with the same brokerage
\* universe.
SecondRunInARow ==
    /\ call.op = "update_assets_in_db"
    /\ call.prev.op = "update_assets_in_db"
    /\ call.prev.universe = call.universe

AloneResult(i) ==
    fetch_and_process_symbol(call.symbols[i], i \notin call.failed).ret

\* C11: in every interleaving of the workers, at most max_workers tasks run
\* at a time and no task runs twice; the i-th result, once there, is what the
\* filter gives for the i-th input symbol evaluated alone, whatever happened
\* to the other tasks; and filter_best_symbols returns, without raising and
\* with every task done, the sorted list of exactly the symbols that pass
\* alone (once per occurrence in the input).
C11_PoolIndependent ==
    call.op = "filter_best_symbols" =>
        /\ Cardinality({w \in Workers : call.running[w] # 0}) <= max_workers
        /\ \A v, w \in Workers :
              (v # w /\ call.running[v] # 0) => call.running[v] # call.running[w]
        /\ \A w \in Workers :
              call.running[w] # 0 => call.results[call.running[w]] = PendingResult
        /\ \A i \in DOMAIN call.results :
              call.results[i] # PendingResult => call.results[i] = AloneResult(i)
        /\ call.status = "returned" =>
              /\ call.raised = "none"
              /\ Len(call.finished) = Len(call.symbols)
              /\ \A s \in Symbols :
                    CountOf(call.ret, s)
                      = Cardinality({i \in DOMAIN call.symbols :
                                        call.symbols[i] = s /\ AloneResult(i) = s})
              /\ Len(call.ret)
                    = Cardinality({i \in DOMAIN call.symbols :
                                      AloneResult(i) # "None"})
              /\ \A i \in 1..(Len(call.ret) - 1) :
                    \E a, b \in DOMAIN SymbolOrder :
                        /\ a <= b
                        /\ call.ret[i] = SymbolOrder[a]
                        /\ call.ret[i + 1] = SymbolOrder[b]

\* C11 witness: the second task finished before the first, the storage read
\* of one task failed, and a symbol of another task passed and was returned.
C11_Witness ==
    /\ Returned("filter_best_symbols")
    /\ Len(call.symbols) >= 2
    /\ call.finished[1] = 2
    /\ call.failed # {}
    /\ \E i \in DOMAIN call.symbols :
          /\ i \notin call.failed
          /\ call.results[i] = call.symbols[i]
          /\ CountOf(call.ret, call.symbols[i]) >= 1

(***************************************************************************)
(* Claims about the wrappers, checked under SpecWrappers.                  *)
(***************************************************************************)
WrapperOps ==
    {"get_all_tradable_assets", "fetch_stock_data", "get_current_position",
     "get_account_equity", "determine_order_quantity",
     "get_all_records_in_table", "get_record_from_table",
     "create_record_in_table", "create_records_in_table",
     "update_records_in_table", "delete_records_in_table"}

\* The latest call is this wrapper, its external call failed, and it is over.
FailedCall(opname) ==
    /\ call.op = opname
    /\ call.status = "returned"
    /\ call.failure # "none"

\* C12: a wrapper whose external call fails raises nothing and returns its
\* default: get_all_tradable_assets the empty list, fetch_stock_data an empty
\* frame, get_current_position 0, get_account_equity None,
\* determine_order_quantity 0, get_all_records_in_table the empty list,
\* get_record_from_table the empty mapping; the insert, upsert and delete
\* wrappers return None.
C12_SafeDefaults ==
    /\ (call.op \in WrapperOps /\ call.status = "returned"
          /\ call.failure # "none") => call.raised = "none"
    /\ FailedCall("get_all_tradable_assets") => call.ret = {}
    /\ FailedCall("fetch_stock_data") => call.ret = EmptyFrame
    /\ FailedCall("get_current_position") => call.ret = 0
    /\ FailedCall("get_account_equity") => call.ret.none
    /\ FailedCall("determine_order_quantity") => call.ret = 0
    /\ FailedCall("get_all_records_in_table") => call.ret = <<>>
    /\ FailedCall("get_record_from_table") => call.ret = NoRecord
    /\ \A opname \in {"create_record_in_table", "create_records_in_table",
                      "update_records_in_table", "delete_records_in_table"} :
          FailedCall(opname) => call.ret = "None"

\* C12 witness: get_all_records_in_table had fetched a page when a request
\* failed, and returned the empty list without raising.
C12_Witness ==
    /\ FailedCall("get_all_records_in_table")
    /\ call.all_records # <<>>
    /\ call.raised = "none"
    /\ call.ret = <<>>

(***************************************************************************)
(* Claims about the mirror of the universe, checked under SpecMirror.      *)
(***************************************************************************)
\* C14: when the brokerage listing fails (the brokerage has tradable symbols
\* but the call that lists them raises), update_assets_in_db inserts
\* nothing, and cleanup_db deletes nothing from stock_assets or stock_data.
C14_ListingFailureChangesNothing ==
    /\ (call.op = "update_assets_in_db" /\ ~call.list_ok
          /\ call.universe # {})
          => (call.inserted = {} /\ stock_assets = call.before)
    /\ (call.op = "cleanup_db" /\ ~call.list_ok /\ call.universe # {})
          => (stock_assets = call.before /\ stock_data = call.data_before)

\* The rows of stock_data after the rows of these symbols were deleted.
WithoutRows(data, symbols) ==
    [s \in Symbols |-> IF s \in symbols THEN NoRecord ELSE data[s]]

\* C15: when no external call fails and the brokerage universe is not empty,
\* update_assets_in_db inserts exactly the listed symbols that were not
\* stored and deletes nothing; cleanup_db deletes from stock_assets and
\* stock_data exactly the stored symbols that are not listed and inserts
\* nothing; and after update_assets_in_db followed by cleanup_db against the
\* same universe, stock_assets holds exactly the universe.
C15_UpdateThenCleanupMirrors ==
    /\ (call.op = "update_assets_in_db" /\ call.universe # {}
          /\ call.list_ok /\ call.read_ok /\ call.insert_ok)
          => /\ call.inserted = call.universe \ call.before
             /\ stock_assets = call.before \cup call.universe
    /\ (call.op = "cleanup_db" /\ call.universe # {}
          /\ call.list_ok /\ call.read_ok
          /\ call.delete_assets_ok /\ call.delete_data_ok)
          => /\ stock_assets = call.before \cap call.universe
             /\ stock_data = WithoutRows(call.data_before,
                                         call.before \ call.universe)
             /\ (call.prev.op = "update_assets_in_db" /\ call.prev.ok
                   /\ call.prev.universe = call.universe)
                  => stock_assets = call.universe

\* C15 witness: update_assets_in_db and then cleanup_db ran without a failure
\* against the same non-empty universe; the cleanup deleted a stale symbol
\* with its stock_data row, and a listed symbol is stored.
C15_Witness ==
    /\ call.op = "cleanup_db"
    /\ call.list_ok /\ call.read_ok
    /\ call.delete_assets_ok /\ call.delete_data_ok
    /\ call.prev.op = "update_assets_in_db" /\ call.prev.ok
    /\ call.prev.universe = call.universe
    /\ call.universe # {}
    /\ \E s \in call.before \ call.universe : call.data_before[s] # NoRecord
    /\ stock_assets = call.universe

(***************************************************************************)
(* Claims about the paging, checked under SpecPagingLive.                  *)
(***************************************************************************)
\* The pages are the consecutive ranges of batch_size rows from row 0 on,
\* the last one cut at the end of the table, none of them empty.
ConsecutivePages(pages, rows) ==
    \A k \in 1..Len(pages) :
        /\ pages[k].first = (k - 1) * batch_size
        /\ pages[k].last = Min2(k * batch_size - 1, rows - 1)
        /\ pages[k].first <= pages[k].last

\* The pages hold every row 0..rows-1 once, in order.
AllRowsOnce(pages, rows) ==
    /\ ConsecutivePages(pages, rows)
    /\ rows = 0 => pages = <<>>
    /\ rows > 0 => (pages # <<>> /\ pages[Len(pages)].last = rows - 1)

PagedCorrectly ==
    call.op = "get_all_records_in_table" =>
        /\ ConsecutivePages(call.all_records, call.rows)
        /\ call.requests <= call.rows \div batch_size + 2
        /\ call.status = "pending" =>
              /\ call.start = batch_size * Len(call.all_records)
              /\ call.requests = Len(call.all_records)
        /\ call.status = "returned" =>
              /\ call.raised = "none"
              /\ call.failure = "none" =>
                    /\ call.ret = call.all_records
                    /\ AllRowsOnce(call.ret, call.rows)
                    /\ call.requests = Len(call.ret) + 1
              /\ call.failure # "none" => call.ret = <<>>

\* C17: get_all_records_in_table asks for consecutive ranges of 1000 rows and
\* stops at the first empty page; for every table size it ends after at most
\* rows / 1000 + 2 requests, returns every row exactly once in range order
\* when no request fails, and returns the empty list when a request fails,
\* however many pages it had fetched.
C17_PagingReturnsAllRows ==
    []PagedCorrectly /\ <>(call.status = "returned")

\* C17 witness: a table of exactly two pages was returned whole, after a
\* third request that found the empty page.
C17_Witness ==
    /\ Returned("get_all_records_in_table")
    /\ call.failure = "none"
    /\ call.rows = 2 * batch_size
    /\ Len(call.ret) = 2
    /\ call.requests = 3

=============================================================================
